---- MODULE Spec2Model ----
(***************************************************************************)
(* A model of the CHIP-8 interpreter of src/src/chip8.rs and of the driver  *)
(* loop of src/src/main.rs.                                                 *)
(*                                                                          *)
(* The interpreter (struct Chip8) is the record `chip`; `phase` is the      *)
(* position of main(): "created" after Chip8::create(), "running" once the  *)
(* program image is loaded and the event loop runs, "panicked" after a Rust *)
(* panic (an out-of-range index, an invalid opcode, a checked arithmetic    *)
(* overflow) has aborted the process.                                       *)
(*                                                                          *)
(* Every op_* function of the source is an operator from a Chip8 record to  *)
(* a result [panic, chip]; run is the whole cycle.  before and call_sites   *)
(* are history variables: no handler reads them.                            *)
(***************************************************************************)
EXTENDS Integers, Sequences, FiniteSets, TLC

VARIABLES
  chip,        \* the Chip8 of main()
  phase,       \* "created", "running" or "panicked"
  held,        \* the keys of the keyboard that are down (the environment)
  before,      \* history: chip as it was when the last cycle began
  call_sites   \* history: the addresses of the CALLs that have not returned

vars == <<chip, phase, held, before, call_sites>>

----------------------------------------------------------------------------
(* Sizes and addresses of the source.                                       *)

MEMORY_SIZE == 4096
NUM_REGISTERS == 16
STACK_SIZE == 16
NUM_KEYS == 16
VIDEO_WIDTH == 64
VIDEO_HEIGHT == 32
VIDEO_SIZE == VIDEO_WIDTH * VIDEO_HEIGHT
START_ADDRESS == 512
FONTSET_START_ADDRESS == 80
FONTSET_SIZE == 80
U8 == 256
U16 == 65536

FONT_DATA ==
  << 240, 144, 144, 144, 240,
      32,  96,  32,  32, 112,
     240,  16, 240, 128, 240,
     240,  16, 240,  16, 240,
     144, 144, 240,  16,  16,
     240, 128, 240,  16, 240,
     240, 128, 240, 144, 240,
     240,  16,  32,  64,  64,
     240, 144, 240, 144, 240,
     240, 144, 240,  16, 240,
     240, 144, 240, 144, 144,
     224, 144, 224, 144, 224,
     240, 128, 128, 128, 240,
     224, 144, 144, 144, 224,
     240, 128, 240, 128, 240,
     240, 128, 240, 128, 128 >>

----------------------------------------------------------------------------
(* Bitwise operations on unsigned integers, bit by bit.                     *)

RECURSIVE BitAnd(_, _)
BitAnd(a, b) ==
  IF a = 0 \/ b = 0 THEN 0
  ELSE (a % 2) * (b % 2) + 2 * BitAnd(a \div 2, b \div 2)

RECURSIVE BitOr(_, _)
BitOr(a, b) ==
  IF a = 0 THEN b
  ELSE IF b = 0 THEN a
  ELSE (IF a % 2 = 1 \/ b % 2 = 1 THEN 1 ELSE 0) + 2 * BitOr(a \div 2, b \div 2)

RECURSIVE BitXor(_, _)
BitXor(a, b) ==
  IF a = 0 THEN b
  ELSE IF b = 0 THEN a
  ELSE ((a + b) % 2) + 2 * BitXor(a \div 2, b \div 2)

Shr(a, n) == a \div (2 ^ n)

(* The outcome of a function that may panic: the interpreter as the         *)
(* function left it, and whether it panicked.                               *)
Ok(c) == [panic |-> FALSE, chip |-> c]
Panic(c) == [panic |-> TRUE, chip |-> c]

----------------------------------------------------------------------------
(* Chip8::create                                                            *)

(* [0; 64*32] *)
BlankVideo == [i \in 0..(VIDEO_SIZE - 1) |-> 0]

create ==
  [ registers       |-> [i \in 0..(NUM_REGISTERS - 1) |-> 0],
    memory          |-> [i \in 0..(MEMORY_SIZE - 1) |->
                           IF /\ i >= FONTSET_START_ADDRESS
                              /\ i < FONTSET_START_ADDRESS + FONTSET_SIZE
                           THEN FONT_DATA[i - FONTSET_START_ADDRESS + 1]
                           ELSE 0],
    index_register  |-> 0,
    program_counter |-> START_ADDRESS,
    stack           |-> [i \in 0..(STACK_SIZE - 1) |-> 0],
    stack_pointer   |-> 0,
    delay_timer     |-> 0,
    sound_timer     |-> 0,
    keypad          |-> [i \in 0..(NUM_KEYS - 1) |-> FALSE],
    video           |-> BlankVideo,
    opcode          |-> 0 ]

(* Chip8::load_rom: the bytes of the file (the sequence buffer) are copied *)
(* one by one, in order, to memory from START_ADDRESS on; a byte past the   *)
(* end of memory panics.  load_rom_loop copies bytes lo .. hi-1: the first  *)
(* half of the range, then the second.                                      *)
RECURSIVE load_rom_loop(_, _, _, _)
load_rom_loop(c, buffer, lo, hi) ==
  IF lo >= hi THEN Ok(c)
  ELSE IF hi = lo + 1
  THEN IF START_ADDRESS + lo \notin DOMAIN c.memory THEN Panic(c)
       ELSE Ok([c EXCEPT !.memory[START_ADDRESS + lo] = buffer[lo + 1]])
  ELSE LET mid   == (lo + hi) \div 2
           first == load_rom_loop(c, buffer, lo, mid)
       IN  IF first.panic THEN first
           ELSE load_rom_loop(first.chip, buffer, mid, hi)

load_rom(c, buffer) == load_rom_loop(c, buffer, 0, Len(buffer))

----------------------------------------------------------------------------
(* The fields of the opcode, as the handlers extract them.                  *)

OpX(op)   == Shr(BitAnd(op, 3840), 8)     \* (opcode & 0x0F00) >> 8
OpY(op)   == Shr(BitAnd(op, 240), 4)      \* (opcode & 0x00F0) >> 4
OpN(op)   == BitAnd(op, 15)               \* opcode & 0x000F
OpNN(op)  == BitAnd(op, 255)              \* opcode & 0x00FF
OpNNN(op) == BitAnd(op, 4095)             \* opcode & 0x0FFF
OpCmd(op) == Shr(BitAnd(op, 61440), 12)   \* (opcode & 0xF000) >> 12

----------------------------------------------------------------------------
(* The instruction handlers.                                                *)

(* A clear that clears nothing.                                             *)
op_00e0_keeps_video(c) == Ok(c)

op_00e0(c) == Ok([c EXCEPT !.video = BlankVideo])

(* A return that reads the stack before it moves the pointer.              *)
op_00ee_reads_above(c) ==
  IF c.stack_pointer = 0 \/ c.stack_pointer >= STACK_SIZE THEN Panic(c)
  ELSE Ok([c EXCEPT !.stack_pointer = c.stack_pointer - 1,
                    !.program_counter = c.stack[c.stack_pointer]])

(* stack_pointer -= 1 on a u16: at 0 a build with overflow checks panics,   *)
(* one without wraps to 65535 and the index into stack panics.              *)
op_00ee(c) ==
  IF c.stack_pointer = 0 THEN Panic(c)
  ELSE Ok([c EXCEPT !.stack_pointer = c.stack_pointer - 1,
                    !.program_counter = c.stack[c.stack_pointer - 1]])

op_1nnn(c) == Ok([c EXCEPT !.program_counter = OpNNN(c.opcode)])

(* A call that wraps around the stack instead of faulting.                  *)
op_2nnn_wraps(c) ==
  Ok([c EXCEPT !.stack[c.stack_pointer % STACK_SIZE] = c.program_counter,
               !.stack_pointer = c.stack_pointer + 1,
               !.program_counter = OpNNN(c.opcode)])

(* stack[stack_pointer] is indexed before stack_pointer += 1: at 16 the     *)
(* index is out of bounds.                                                  *)
op_2nnn(c) ==
  IF c.stack_pointer >= STACK_SIZE THEN Panic(c)
  ELSE Ok([c EXCEPT !.stack[c.stack_pointer] = c.program_counter,
                    !.stack_pointer = c.stack_pointer + 1,
                    !.program_counter = OpNNN(c.opcode)])

op_3xnn(c) ==
  IF c.registers[OpX(c.opcode)] = OpNN(c.opcode)
  THEN Ok([c EXCEPT !.program_counter = c.program_counter + 2])
  ELSE Ok(c)

op_4xnn(c) ==
  IF c.registers[OpX(c.opcode)] # OpNN(c.opcode)
  THEN Ok([c EXCEPT !.program_counter = c.program_counter + 2])
  ELSE Ok(c)

op_5xy0(c) ==
  IF c.registers[OpX(c.opcode)] = c.registers[OpY(c.opcode)]
  THEN Ok([c EXCEPT !.program_counter = c.program_counter + 2])
  ELSE Ok(c)

op_6xnn(c) == Ok([c EXCEPT !.registers[OpX(c.opcode)] = OpNN(c.opcode)])

(* An addition whose sum is not reduced to a byte.                          *)
op_7xnn_unmasked(c) ==
  Ok([c EXCEPT !.registers[OpX(c.opcode)] = @ + OpNN(c.opcode)])

op_7xnn(c) ==
  LET sum == c.registers[OpX(c.opcode)] + OpNN(c.opcode)
  IN  Ok([c EXCEPT !.registers[OpX(c.opcode)] = BitAnd(sum, 255)])

(* The arms of op_8xyk.  k = 0..3 are compound assignments; 4..0xE write   *)
(* the flag register first and the result register second, each statement   *)
(* reading the registers as they are when it runs.  overflow_checks tells   *)
(* whether the build panics on arithmetic overflow (the plain `-` of k = 7) *)
(* or wraps.                                                                *)

(* A carry test that is off by one.                                         *)
op_8xy4_carry_at_255(c) ==
  LET a   == OpX(c.opcode)
      b   == OpY(c.opcode)
      r   == c.registers
      sum == r[a] + r[b]
      r1  == [r EXCEPT ![15] = IF sum >= 255 THEN 1 ELSE 0]
  IN  Ok([c EXCEPT !.registers = [r1 EXCEPT ![a] = BitAnd(sum, 255)]])

op_8xy4(c) ==
  LET a   == OpX(c.opcode)
      b   == OpY(c.opcode)
      r   == c.registers
      sum == r[a] + r[b]
      r1  == [r EXCEPT ![15] = IF sum > 255 THEN 1 ELSE 0]
  IN  Ok([c EXCEPT !.registers = [r1 EXCEPT ![a] = BitAnd(sum, 255)]])

op_8xy5(c) ==
  LET a  == OpX(c.opcode)
      b  == OpY(c.opcode)
      r  == c.registers
      r1 == [r EXCEPT ![15] = IF r[a] >= r[b] THEN 1 ELSE 0]
  IN  Ok([c EXCEPT !.registers = [r1 EXCEPT ![a] = (r1[a] - r1[b]) % U8]])

op_8xy6(c) ==
  LET a  == OpX(c.opcode)
      r  == c.registers
      r1 == [r EXCEPT ![15] = BitAnd(r[a], 1)]
  IN  Ok([c EXCEPT !.registers = [r1 EXCEPT ![a] = Shr(r1[a], 1)]])

op_8xy7(c, overflow_checks) ==
  LET a  == OpX(c.opcode)
      b  == OpY(c.opcode)
      r  == c.registers
      r1 == [r EXCEPT ![15] = IF r[b] > r[a] THEN 1 ELSE 0]
  IN  IF r1[b] < r1[a] /\ overflow_checks
      THEN Panic([c EXCEPT !.registers = r1])
      ELSE Ok([c EXCEPT !.registers = [r1 EXCEPT ![a] = (r1[b] - r1[a]) % U8]])

op_8xye(c) ==
  LET a  == OpX(c.opcode)
      r  == c.registers
      r1 == [r EXCEPT ![15] = Shr(BitAnd(r[a], 128), 7)]
  IN  Ok([c EXCEPT !.registers = [r1 EXCEPT ![a] = (r1[a] * 2) % U8]])

op_8xyk(c, k, overflow_checks) ==
  LET a == OpX(c.opcode)
      b == OpY(c.opcode)
      r == c.registers
  IN  CASE k = 0 -> Ok([c EXCEPT !.registers[a] = r[b]])
        [] k = 1 -> Ok([c EXCEPT !.registers[a] = BitOr(r[a], r[b])])
        [] k = 2 -> Ok([c EXCEPT !.registers[a] = BitAnd(r[a], r[b])])
        [] k = 3 -> Ok([c EXCEPT !.registers[a] = BitXor(r[a], r[b])])
        [] k = 4 -> op_8xy4(c)
        [] k = 5 -> op_8xy5(c)
        [] k = 6 -> op_8xy6(c)
        [] k = 7 -> op_8xy7(c, overflow_checks)
        [] k = 14 -> op_8xye(c)
        [] OTHER -> Panic(c)

op_9xy0(c) ==
  IF c.registers[OpX(c.opcode)] # c.registers[OpY(c.opcode)]
  THEN Ok([c EXCEPT !.program_counter = c.program_counter + 2])
  ELSE Ok(c)

op_annn(c) == Ok([c EXCEPT !.index_register = OpNNN(c.opcode)])

op_bnnn(c) == Ok([c EXCEPT !.program_counter = c.registers[0] + OpNNN(c.opcode)])

(* random is the byte rand::random::<u8>() returns.                         *)
op_cxkk(c, random) ==
  Ok([c EXCEPT !.registers[OpX(c.opcode)] = BitAnd(random, OpNN(c.opcode))])

(* An inner loop that toggles the low bit of a pixel only.                  *)
RECURSIVE dxyn_cols_low_bit(_, _, _, _, _, _)
dxyn_cols_low_bit(c, sprite, x, y, row, col) ==
  IF col >= 8 THEN Ok(c)
  ELSE
    LET pos == (x + col) + (y + row) * 64
    IN  IF pos \notin DOMAIN c.video THEN Panic(c)
        ELSE IF BitAnd(sprite, Shr(128, col)) # 0
        THEN dxyn_cols_low_bit([c EXCEPT !.video[pos] = BitXor(@, 1)],
                               sprite, x, y, row, col + 1)
        ELSE dxyn_cols_low_bit(c, sprite, x, y, row, col + 1)

(* The inner loop of op_dxyn over col, col+1, .. 7 of one sprite row:       *)
(* video[xpos + ypos * 64] is indexed for every col, set bit or not (a      *)
(* panic past the end of video).                                            *)
RECURSIVE dxyn_cols(_, _, _, _, _, _)
dxyn_cols(c, sprite, x, y, row, col) ==
  IF col >= 8 THEN Ok(c)
  ELSE
    LET pixel == BitAnd(sprite, Shr(128, col))
        ypos  == y + row
        xpos  == x + col
        pos   == xpos + ypos * 64
    IN  IF pos \notin DOMAIN c.video THEN Panic(c)
        ELSE IF pixel # 0
        THEN dxyn_cols(
               [c EXCEPT !.registers[15] = IF c.video[pos] = 255 THEN 1 ELSE @,
                         !.video[pos] = BitXor(@, 255)],
               sprite, x, y, row, col + 1)
        ELSE dxyn_cols(c, sprite, x, y, row, col + 1)

(* The outer loop of op_dxyn over row, row+1, .. height-1: the sprite byte  *)
(* of a row is read from memory[index_register + row] (a panic past the end *)
(* of memory; the u16 sum cannot overflow before row 0 has panicked).       *)
RECURSIVE dxyn_rows(_, _, _, _, _)
dxyn_rows(c, x, y, height, row) ==
  IF row >= height THEN Ok(c)
  ELSE
    LET i == c.index_register + row
    IN  IF i \notin DOMAIN c.memory THEN Panic(c)
        ELSE
          LET line == dxyn_cols(c, c.memory[i], x, y, row, 0)
          IN  IF line.panic THEN line
              ELSE dxyn_rows(line.chip, x, y, height, row + 1)

op_dxyn(c) ==
  LET a      == OpX(c.opcode)
      b      == OpY(c.opcode)
      height == OpN(c.opcode)
      x      == c.registers[a] % 64
      y      == c.registers[b] % 32
      scan   == dxyn_rows([c EXCEPT !.registers[15] = 0], x, y, height, 0)
  IN  IF scan.panic THEN scan
      ELSE Ok([scan.chip EXCEPT !.registers[15] = 0])

op_ex9e(c) ==
  LET key == c.registers[OpX(c.opcode)]
  IN  IF key >= NUM_KEYS THEN Panic(c)
      ELSE IF c.keypad[key]
      THEN Ok([c EXCEPT !.program_counter = c.program_counter + 2])
      ELSE Ok(c)

(* A skip-if-not-pressed that skips when the key is pressed.                *)
op_exa1_skips_if_pressed(c) ==
  LET key == c.registers[OpX(c.opcode)]
  IN  IF key >= NUM_KEYS THEN Panic(c)
      ELSE IF c.keypad[key]
      THEN Ok([c EXCEPT !.program_counter = c.program_counter + 2])
      ELSE Ok(c)

op_exa1(c) ==
  LET key == c.registers[OpX(c.opcode)]
  IN  IF key >= NUM_KEYS THEN Panic(c)
      ELSE IF ~c.keypad[key]
      THEN Ok([c EXCEPT !.program_counter = c.program_counter + 2])
      ELSE Ok(c)

op_fx07(c) == Ok([c EXCEPT !.registers[OpX(c.opcode)] = c.delay_timer])

(* A scan that stops at the first pressed key.                              *)
RECURSIVE fx0a_scan_first_wins(_, _, _)
fx0a_scan_first_wins(c, i, flag) ==
  IF i >= NUM_KEYS
  THEN IF ~flag THEN [c EXCEPT !.program_counter = c.program_counter - 2] ELSE c
  ELSE IF c.keypad[i]
       THEN [c EXCEPT !.registers[OpX(c.opcode)] = i]
       ELSE fx0a_scan_first_wins(c, i + 1, flag)

(* The scan of op_fx0a over keypad entries i, i+1, ..: every pressed key    *)
(* writes the register, so the last one stays.                              *)
RECURSIVE fx0a_scan(_, _, _)
fx0a_scan(c, i, flag) ==
  IF i >= NUM_KEYS
  THEN IF ~flag THEN [c EXCEPT !.program_counter = c.program_counter - 2] ELSE c
  ELSE IF c.keypad[i]
       THEN fx0a_scan([c EXCEPT !.registers[OpX(c.opcode)] = i], i + 1, TRUE)
       ELSE fx0a_scan(c, i + 1, flag)

op_fx0a(c) == Ok(fx0a_scan(c, 0, FALSE))

op_fx15(c) == Ok([c EXCEPT !.delay_timer = c.registers[OpX(c.opcode)]])

op_fx18(c) == Ok([c EXCEPT !.sound_timer = c.registers[OpX(c.opcode)]])

(* index_register += reg on a u16.                                          *)
op_fx1e(c, overflow_checks) ==
  LET sum == c.index_register + c.registers[OpX(c.opcode)]
  IN  IF sum >= U16 /\ overflow_checks THEN Panic(c)
      ELSE Ok([c EXCEPT !.index_register = sum % U16])

(* 5 * digit is a u8 product, widened to u16 after it.                      *)
op_fx29(c, overflow_checks) ==
  LET digit == c.registers[OpX(c.opcode)]
  IN  IF 5 * digit >= U8 /\ overflow_checks THEN Panic(c)
      ELSE Ok([c EXCEPT !.index_register =
                 FONTSET_START_ADDRESS + ((5 * digit) % U8)])

(* A conversion whose tens digit is not reduced mod 10.                     *)
op_fx33_tens_unreduced(c) ==
  LET value == c.registers[OpX(c.opcode)]
      i     == c.index_register
  IN  IF i + 2 >= MEMORY_SIZE THEN Panic(c)
      ELSE Ok([c EXCEPT !.memory[i] = value \div 100,
                        !.memory[i + 1] = value \div 10,
                        !.memory[i + 2] = value % 10])

(* The f64 arithmetic of op_fx33 is exact on 0..255: floor(v / 100),        *)
(* floor((v / 10) mod 10) and v mod 10 are the decimal digits.  The three   *)
(* stores are in order, each panicking past the end of memory.              *)
op_fx33(c) ==
  LET value    == c.registers[OpX(c.opcode)]
      hundreds == value \div 100
      tens     == (value \div 10) % 10
      ones     == value % 10
      i        == c.index_register
  IN  IF i >= MEMORY_SIZE THEN Panic(c)
      ELSE IF i + 1 >= MEMORY_SIZE
      THEN Panic([c EXCEPT !.memory[i] = hundreds])
      ELSE IF i + 2 >= MEMORY_SIZE
      THEN Panic([c EXCEPT !.memory[i] = hundreds, !.memory[i + 1] = tens])
      ELSE Ok([c EXCEPT !.memory[i] = hundreds,
                        !.memory[i + 1] = tens,
                        !.memory[i + 2] = ones])

(* A store loop whose addresses wrap around the end of memory.              *)
RECURSIVE fx55_loop_wraps(_, _, _)
fx55_loop_wraps(c, i, last) ==
  IF i > last THEN Ok(c)
  ELSE fx55_loop_wraps(
         [c EXCEPT !.memory[(c.index_register + i) % MEMORY_SIZE] = c.registers[i]],
         i + 1, last)

RECURSIVE fx55_loop(_, _, _)
fx55_loop(c, i, last) ==
  IF i > last THEN Ok(c)
  ELSE IF c.index_register + i >= MEMORY_SIZE THEN Panic(c)
  ELSE fx55_loop([c EXCEPT !.memory[c.index_register + i] = c.registers[i]],
                 i + 1, last)

op_fx55(c) == fx55_loop(c, 0, OpX(c.opcode))

(* The loop of op_fx65 runs i over 0..=last, the range the source builds    *)
(* before the loop; memory is read first, then registers[i] is indexed.     *)
RECURSIVE fx65_loop(_, _, _)
fx65_loop(c, i, last) ==
  IF i > last THEN Ok(c)
  ELSE IF c.index_register + i >= MEMORY_SIZE THEN Panic(c)
  ELSE IF i >= NUM_REGISTERS THEN Panic(c)
  ELSE fx65_loop([c EXCEPT !.registers[i] = c.memory[c.index_register + i]],
                 i + 1, last)

op_fx65(c) == fx65_loop(c, 0, c.registers[OpX(c.opcode)])

----------------------------------------------------------------------------
(* Chip8::run: one cycle.                                                   *)

dispatch(c, random, overflow_checks) ==
  LET cmd == OpCmd(c.opcode)
  IN  CASE cmd = 0 ->
             LET operand == OpNNN(c.opcode)
             IN  CASE operand = 224 -> op_00e0(c)
                   [] operand = 238 -> op_00ee(c)
                   [] OTHER -> Panic(c)
        [] cmd = 1 -> op_1nnn(c)
        [] cmd = 2 -> op_2nnn(c)
        [] cmd = 3 -> op_3xnn(c)
        [] cmd = 4 -> op_4xnn(c)
        [] cmd = 5 -> op_5xy0(c)
        [] cmd = 6 -> op_6xnn(c)
        [] cmd = 7 -> op_7xnn(c)
        [] cmd = 8 -> op_8xyk(c, BitAnd(c.opcode, 15), overflow_checks)
        [] cmd = 9 -> op_9xy0(c)
        [] cmd = 10 -> op_annn(c)
        [] cmd = 11 -> op_bnnn(c)
        [] cmd = 12 -> op_cxkk(c, random)
        [] cmd = 13 -> op_dxyn(c)
        [] cmd = 14 ->
             LET identity == OpNN(c.opcode)
             IN  CASE identity = 158 -> op_ex9e(c)
                   [] identity = 161 -> op_exa1(c)
                   [] OTHER -> Panic(c)
        [] cmd = 15 ->
             LET identity == OpNN(c.opcode)
             IN  CASE identity = 7   -> op_fx07(c)
                   [] identity = 10  -> op_fx0a(c)
                   [] identity = 21  -> op_fx15(c)
                   [] identity = 24  -> op_fx18(c)
                   [] identity = 30  -> op_fx1e(c, overflow_checks)
                   [] identity = 41  -> op_fx29(c, overflow_checks)
                   [] identity = 51  -> op_fx33(c)
                   [] identity = 85  -> op_fx55(c)
                   [] identity = 101 -> op_fx65(c)
                   [] OTHER -> Panic(c)
        [] OTHER -> Panic(c)

(* Decrements without the guards, wrapping at 0.                            *)
tick_unguarded(c) ==
  [c EXCEPT !.delay_timer = (@ - 1) % U8,
            !.sound_timer = (@ - 1) % U8]

(* The timer decrements that end the cycle.                                 *)
tick(c) ==
  [c EXCEPT !.delay_timer = IF @ > 0 THEN @ - 1 ELSE @,
            !.sound_timer = IF @ > 0 THEN @ - 1 ELSE @]

run(c, random, overflow_checks) ==
  LET pc == c.program_counter
  IN  IF pc >= MEMORY_SIZE \/ pc + 1 >= MEMORY_SIZE THEN Panic(c)
      ELSE
        LET first_part  == c.memory[pc] * 256
            second_part == c.memory[pc + 1]
            fetched     == [c EXCEPT !.opcode = BitOr(first_part, second_part),
                                     !.program_counter = pc + 2]
            executed    == dispatch(fetched, random, overflow_checks)
        IN  IF executed.panic THEN executed
            ELSE Ok(tick(executed.chip))

----------------------------------------------------------------------------
(* The process: main() creates the interpreter, loads the program image and *)
(* then, once per event of its loop, handles a key press or release and     *)
(* calls run().                                                             *)

(* The bytes rand::random::<u8>() is taken to return.                       *)
RandomBytes == {0, 165, 255}

IsCall(op) == OpCmd(op) = 2
IsRet(op)  == op = 238

Init ==
  /\ chip = create
  /\ phase = "created"
  /\ held = {}
  /\ before = create
  /\ call_sites = <<>>

(* chip8.load_rom(path), the file holding one of the byte sequences roms.   *)
LoadRom(roms) ==
  /\ phase = "created"
  /\ \E buffer \in roms :
       \E loaded \in {load_rom(chip, buffer)} :
          /\ chip' = loaded.chip
          /\ phase' = IF loaded.panic THEN "panicked" ELSE "running"
  /\ UNCHANGED <<held, before, call_sites>>

(* The word the next cycle fetches (0 when the fetch is out of memory).     *)
NextWord(c) ==
  IF c.program_counter + 1 < MEMORY_SIZE
  THEN c.memory[c.program_counter] * 256 + c.memory[c.program_counter + 1]
  ELSE 0

(* rand::random is called by op_cxkk alone, and only the arithmetic of      *)
(* 8XY7, FX1E and FX29 can overflow: the other cycles have one outcome      *)
(* whatever the random byte and the build.                                  *)
RandomInputs(op) == IF OpCmd(op) = 12 THEN RandomBytes ELSE {0}
BuildInputs(op) ==
  IF \/ OpCmd(op) = 8 /\ OpN(op) = 7
     \/ OpCmd(op) = 15 /\ OpNN(op) \in {30, 41}
  THEN BOOLEAN ELSE {TRUE}

(* chip8.run(): one cycle, for every byte the random source may return and *)
(* either build; a panic ends the process.                                  *)
Run ==
  /\ phase = "running"
  /\ \E cycle \in { run(chip, random, overflow_checks) :
                        random \in RandomInputs(NextWord(chip)),
                        overflow_checks \in BuildInputs(NextWord(chip)) } :
          /\ chip' = cycle.chip
          /\ phase' = IF cycle.panic THEN "panicked" ELSE "running"
          /\ call_sites' =
               IF cycle.panic THEN call_sites
               ELSE IF IsCall(cycle.chip.opcode)
               THEN Append(call_sites, chip.program_counter)
               ELSE IF IsRet(cycle.chip.opcode) /\ call_sites # <<>>
               THEN SubSeq(call_sites, 1, Len(call_sites) - 1)
               ELSE call_sites
  /\ before' = chip
  /\ UNCHANGED held

(* The keyboard of main(): the keys its two match statements name, and one *)
(* key ("Other") they do not.                                               *)
Keys == {"D1", "D2", "D3", "D4", "Q", "W", "E", "R", "A", "S", "D", "F",
         "Z", "X", "C", "V", "K", "Other"}

(* The match on e.press_args(): the keypad entry the key sets; K prints the *)
(* framebuffer and any other key does nothing.                              *)
press_args(c, key) ==
  CASE key = "D1" -> [c EXCEPT !.keypad[1] = TRUE]
    [] key = "D2" -> [c EXCEPT !.keypad[2] = TRUE]
    [] key = "D3" -> [c EXCEPT !.keypad[3] = TRUE]
    [] key = "D4" -> [c EXCEPT !.keypad[12] = TRUE]
    [] key = "Q"  -> [c EXCEPT !.keypad[4] = TRUE]
    [] key = "W"  -> [c EXCEPT !.keypad[5] = TRUE]
    [] key = "E"  -> [c EXCEPT !.keypad[6] = TRUE]
    [] key = "R"  -> [c EXCEPT !.keypad[13] = TRUE]
    [] key = "A"  -> [c EXCEPT !.keypad[7] = TRUE]
    [] key = "S"  -> [c EXCEPT !.keypad[8] = TRUE]
    [] key = "D"  -> [c EXCEPT !.keypad[9] = TRUE]
    [] key = "F"  -> [c EXCEPT !.keypad[14] = TRUE]
    [] key = "Z"  -> [c EXCEPT !.keypad[10] = TRUE]
    [] key = "X"  -> [c EXCEPT !.keypad[9] = TRUE]
    [] key = "C"  -> [c EXCEPT !.keypad[11] = TRUE]
    [] key = "V"  -> [c EXCEPT !.keypad[15] = TRUE]
    [] OTHER -> c

(* The match on e.release_args().                                           *)
release_args(c, key) ==
  CASE key = "D1" -> [c EXCEPT !.keypad[1] = FALSE]
    [] key = "D2" -> [c EXCEPT !.keypad[2] = FALSE]
    [] key = "D3" -> [c EXCEPT !.keypad[3] = FALSE]
    [] key = "D4" -> [c EXCEPT !.keypad[12] = FALSE]
    [] key = "Q"  -> [c EXCEPT !.keypad[4] = FALSE]
    [] key = "W"  -> [c EXCEPT !.keypad[5] = FALSE]
    [] key = "E"  -> [c EXCEPT !.keypad[6] = FALSE]
    [] key = "R"  -> [c EXCEPT !.keypad[13] = FALSE]
    [] key = "A"  -> [c EXCEPT !.keypad[7] = FALSE]
    [] key = "S"  -> [c EXCEPT !.keypad[8] = FALSE]
    [] key = "D"  -> [c EXCEPT !.keypad[9] = FALSE]
    [] key = "F"  -> [c EXCEPT !.keypad[14] = FALSE]
    [] key = "Z"  -> [c EXCEPT !.keypad[10] = FALSE]
    [] key = "X"  -> [c EXCEPT !.keypad[9] = FALSE]
    [] key = "C"  -> [c EXCEPT !.keypad[11] = FALSE]
    [] key = "V"  -> [c EXCEPT !.keypad[15] = FALSE]
    [] OTHER -> c

(* The keys the user holds down at once.                                    *)
MaxHeld == 2

(* The event of a loop iteration is the press of a key that was up.         *)
Press(keys) ==
  /\ phase = "running"
  /\ Cardinality(held) < MaxHeld
  /\ \E key \in keys \ held :
       /\ chip' = press_args(chip, key)
       /\ held' = held \cup {key}
  /\ UNCHANGED <<phase, before, call_sites>>

(* The event of a loop iteration is the release of a key that was down.     *)
Release(keys) ==
  /\ phase = "running"
  /\ \E key \in keys \cap held :
       /\ chip' = release_args(chip, key)
       /\ held' = held \ {key}
  /\ UNCHANGED <<phase, before, call_sites>>

----------------------------------------------------------------------------
(* Program images.  A program is a sequence of 16-bit instruction words,    *)
(* stored big-endian.                                                       *)

RECURSIVE Image(_)
Image(words) ==
  IF words = <<>> THEN <<>>
  ELSE <<Head(words) \div 256, Head(words) % 256>> \o Image(Tail(words))

Ins(cmd, x, y, n) == cmd * 4096 + x * 256 + y * 16 + n
InsNN(cmd, x, nn) == cmd * 4096 + x * 256 + nn
InsNNN(cmd, nnn)  == cmd * 4096 + nnn

Regs == 0..(NUM_REGISTERS - 1)

(* Register contents the arithmetic programs load.                          *)
ByteSamples == {0, 1, 255}

(* The arithmetic instructions the programs end with: 8XY4, 8XY5, 8XY7.     *)
AluKinds == {4, 5, 7}

(* 6Xaa 6Ybb 8XYk: load two registers, then one arithmetic instruction.     *)
AluRoms ==
  { Image(<<InsNN(6, X, a), InsNN(6, Y, b), Ins(8, X, Y, k)>>) :
      X \in Regs, Y \in Regs, a \in ByteSamples, b \in ByteSamples,
      k \in AluKinds }

NextAlu == LoadRom(AluRoms) \/ Run

SpecAlu == Init /\ [][NextAlu]_vars

(* Drawing programs.  The font sprite "0" is drawn at (0, 0); then reg[X]   *)
(* and reg[Y] are loaded, index_register is pointed at a sprite, the sprite *)
(* is drawn twice, the screen is cleared and the sprite is drawn again.     *)
DrawRegs    == {0, 1, 15}
DrawXs      == {2, 62, 70}
DrawYs      == {0, 1, 30, 33}
DrawHeights == {0, 1, 5}
SpriteAddrs == {80, 85, 4094}

DrawRoms ==
  { Image(<<InsNNN(10, 80), Ins(13, 0, 1, 5),
            InsNN(6, X, xx), InsNN(6, Y, yy), InsNNN(10, addr),
            Ins(13, X, Y, n), Ins(13, X, Y, n), 224, Ins(13, X, Y, n)>>) :
      X \in DrawRegs, Y \in DrawRegs, xx \in DrawXs, yy \in DrawYs,
      n \in DrawHeights, addr \in SpriteAddrs }

NextDraw == LoadRom(DrawRoms) \/ Run

SpecDraw == Init /\ [][NextDraw]_vars

(* Subroutine programs.  Chain(n): n nested calls, the subroutine at depth  *)
(* i at START_ADDRESS + 4 * i, each returning right after its own call;     *)
(* one deeper than the stack overflows it.                                  *)
RECURSIVE ChainWords(_, _)
ChainWords(i, n) ==
  IF i >= n THEN <<238>>
  ELSE <<InsNNN(2, START_ADDRESS + 4 * (i + 1)), 238>> \o ChainWords(i + 1, n)

ChainDepths == 1..(STACK_SIZE + 1)

CallRoms ==
  { Image(ChainWords(0, n)) : n \in ChainDepths }
  \cup
  { \* a subroutine that calls itself
    Image(<<InsNNN(2, 512)>>),
    \* 0x200 CALL 208; CALL 20C; JP 200; -; 0x208 CALL 20C; RET; 0x20C RET
    Image(<<InsNNN(2, 520), InsNNN(2, 524), InsNNN(1, 512), 0,
            InsNNN(2, 524), 238, 238>>) }

NextCall == LoadRom(CallRoms) \/ Run

SpecCall == Init /\ [][NextCall]_vars

(* One-instruction programs: words of every group, in and out of the        *)
(* instruction table.                                                       *)
OpcodeSamples ==
  {0, 1, 224, 225, 238, 239, 291, 4095}
  \cup { Ins(g, x, y, n) : g \in {5, 8, 9}, x \in {0, 1}, y \in {0, 1}, n \in 0..15 }
  \cup { InsNN(14, x, nn) : x \in {0, 1}, nn \in {0, 158, 159, 160, 161, 255} }
  \cup { InsNN(15, x, nn) : x \in {0, 1},
           nn \in {0, 7, 8, 10, 21, 22, 24, 30, 31, 41, 48, 51, 85, 86, 101, 102, 255} }
  \cup { InsNNN(g, 768) : g \in {1, 2, 10, 11} }
  \cup { InsNN(g, 1, 0) : g \in {3, 4, 6, 7, 12} }
  \cup { Ins(13, 0, 1, 5) }

DecodeRoms == { Image(<<w>>) : w \in OpcodeSamples }

NextDecode == LoadRom(DecodeRoms) \/ Run

SpecDecode == Init /\ [][NextDecode]_vars

(* Register-load programs: ANNN, 6Xvv, FX65.                                *)
LoadAddrs  == {80, 512, 4088}
LoadValues == {0, 2, 15, 16, 255}

MemRoms ==
  { Image(<<InsNNN(10, addr), InsNN(6, X, vv), InsNN(15, X, 101)>>) :
      addr \in LoadAddrs, X \in Regs, vv \in LoadValues }

NextMem == LoadRom(MemRoms) \/ Run

SpecMem == Init /\ [][NextMem]_vars

(* Timer programs: 6Xvv, then FX15 or FX18, three instructions that write   *)
(* no timer, and a jump to itself.                                          *)
TimerRegs   == {0, 7, 15}
TimerValues == {0, 1, 2, 3, 255}

TimerRoms ==
  { Image(<<InsNN(6, X, vv), InsNN(15, X, t),
            InsNN(7, X, 1), InsNN(6, 0, 0), InsNNN(10, 768), InsNNN(1, 522)>>) :
      X \in TimerRegs, vv \in TimerValues, t \in {21, 24} }

NextTimer == LoadRom(TimerRoms) \/ Run

SpecTimer == Init /\ [][NextTimer]_vars

(* Store programs: ANNN, 6Xvv, then FX33 or FX55, index_register pointing   *)
(* into the font, into free memory, and at the last bytes of memory.        *)
StoreAddrs  == {80, 157, 768, 4093, 4094}
StoreRegs   == {0, 2, 15}
StoreValues == {0, 9, 10, 99, 100, 255}

StoreRoms ==
  { Image(<<InsNNN(10, addr), InsNN(6, X, vv), InsNN(15, X, t)>>) :
      addr \in StoreAddrs, X \in StoreRegs, vv \in StoreValues, t \in {51, 85} }

NextStore == LoadRom(StoreRoms) \/ Run

SpecStore == Init /\ [][NextStore]_vars

(* Register programs: 6Xvv, then 7Xnn or FX29.                              *)
RegRegs   == {0, 10, 15}
RegValues == {0, 5, 51, 52, 255}
AddValues == {0, 1, 3, 251, 255}

RegRoms ==
  { Image(<<InsNN(6, X, vv), InsNN(7, X, nn)>>) :
      X \in RegRegs, vv \in RegValues, nn \in AddValues }
  \cup
  { Image(<<InsNN(6, X, vv), InsNN(15, X, 41)>>) :
      X \in RegRegs, vv \in RegValues }

NextReg == LoadRom(RegRoms) \/ Run

SpecReg == Init /\ [][NextReg]_vars

(* Skip programs: 6Xaa 6Ybb, then one conditional skip, run while keys of   *)
(* the keyboard go down and up.                                             *)
SkipRegsX  == {0, 15}
SkipRegsY  == {1, 15}
SkipValues == {1, 15, 16}
SkipKeys   == {"D1", "V", "Other"}

SkipWords(X, Y) ==
  { InsNN(3, X, 1), InsNN(4, X, 1), Ins(5, X, Y, 0), Ins(9, X, Y, 0),
    InsNN(14, X, 158), InsNN(14, X, 161) }

SkipRoms ==
  UNION { { Image(<<InsNN(6, X, a), InsNN(6, Y, b), w>>) :
              a \in SkipValues, b \in SkipValues \ {16}, w \in SkipWords(X, Y) } :
          X \in SkipRegsX, Y \in SkipRegsY }

NextSkip ==
  \/ LoadRom(SkipRoms)
  \/ Run
  \/ Press(SkipKeys)
  \/ Release(SkipKeys)

SpecSkip == Init /\ [][NextSkip]_vars

(* Programs that reach the end of memory.  Jumps: 1FFF; 60vv BNNN; and      *)
(* 6060 6100 AFFE F155 1FFE, which stores the instruction 6000 in the last  *)
(* two bytes of memory and runs it.  Data: ANNN 61dd F11E 6Xvv, then FX33,  *)
(* FX55, FX65 or D01N, index_register = NNN + dd at or past the last bytes. *)
FaultAddrs   == {4093, 4094, 4095}
FaultOffsets == {0, 3}
FaultRegs    == {0, 2}
FaultValues  == {0, 1, 255}

FaultWords(X) ==
  { InsNN(15, X, 51), InsNN(15, X, 85), InsNN(15, X, 101),
    Ins(13, 0, 1, 0), Ins(13, 0, 1, 2) }

FaultRoms ==
  { Image(<<InsNNN(1, 4095)>>),
    Image(<<InsNN(6, 0, 96), InsNN(6, 1, 0), InsNNN(10, 4094),
            InsNN(15, 1, 85), InsNNN(1, 4094)>>) }
  \cup
  { Image(<<InsNN(6, 0, vv), InsNNN(11, nnn)>>) :
      vv \in FaultValues, nnn \in {4094, 4095} }
  \cup
  UNION { { Image(<<InsNNN(10, addr), InsNN(6, 1, dd), InsNN(15, 1, 30),
                    InsNN(6, X, vv), w>>) :
              addr \in FaultAddrs, dd \in FaultOffsets, vv \in FaultValues,
              w \in FaultWords(X) } :
          X \in FaultRegs }

NextFault == LoadRom(FaultRoms) \/ Run

SpecFault == Init /\ [][NextFault]_vars

(* Frame programs: the font sprite "0" is drawn at (0, 0), then one         *)
(* instruction of every pattern of the table runs, while keys go down and   *)
(* up.                                                                      *)
FrameWords ==
  { 224, 238, InsNNN(1, 768), InsNNN(2, 768),
    InsNN(3, 0, 0), InsNN(4, 0, 0), Ins(5, 0, 1, 0), InsNN(6, 0, 255),
    InsNN(7, 0, 255), Ins(9, 0, 1, 0), InsNNN(10, 768), InsNNN(11, 768),
    InsNN(12, 0, 255), Ins(13, 0, 1, 5), Ins(13, 2, 2, 1),
    InsNN(14, 0, 158), InsNN(14, 0, 161) }
  \cup { Ins(8, 0, 1, k) : k \in (0..7) \cup {14} }
  \cup { InsNN(15, 0, nn) : nn \in {7, 10, 21, 24, 30, 41, 51, 85, 101} }

FrameRoms == { Image(<<InsNNN(10, 80), Ins(13, 0, 1, 5), w>>) : w \in FrameWords }

FrameKeys == {"D1", "Other"}

NextFrame ==
  \/ LoadRom(FrameRoms)
  \/ Run
  \/ Press(FrameKeys)
  \/ Release(FrameKeys)

SpecFrame == Init /\ [][NextFrame]_vars

(* The driver with its keyboard.  Key-wait programs: FX0A, then a jump back *)
(* to it.                                                                   *)
DriverKeys == {"D1", "D", "X", "V", "Other"}
KeyRegs    == {0, 15}

KeyRoms ==
  { Image(<<InsNN(15, X, 10), InsNNN(1, 512)>>) : X \in KeyRegs }

Next ==
  \/ LoadRom(KeyRoms)
  \/ Run
  \/ Press(DriverKeys)
  \/ Release(DriverKeys)

Spec == Init /\ [][Next]_vars

----------------------------------------------------------------------------
(* What the claims speak of: the instruction the last completed cycle       *)
(* executed is chip.opcode, and before is the interpreter it started from.  *)

Completed == phase = "running" /\ chip.opcode # 0

Executed8(k) == Completed /\ OpCmd(chip.opcode) = 8 /\ OpN(chip.opcode) = k

(* C2 as stated: after 8XY4, for all X, Y and all a = reg[X], b = reg[Y]    *)
(* held before, reg[0xF] = 1 iff a + b > 255 (else 0) and                   *)
(* reg[X] = (a + b) mod 256.                                                *)
C2_AddCarryAllRegisters ==
  Executed8(4) =>
    LET X == OpX(chip.opcode)
        Y == OpY(chip.opcode)
        a == before.registers[X]
        b == before.registers[Y]
    IN  /\ chip.registers[15] = (IF a + b > 255 THEN 1 ELSE 0)
        /\ chip.registers[X] = (a + b) % 256

(* C2 amended: the same for every X other than 0xF (Y any register); with   *)
(* X = 0xF the result overwrites the carry, reg[0xF] = (a + b) mod 256.     *)
C2_AddCarry ==
  Executed8(4) =>
    LET X == OpX(chip.opcode)
        Y == OpY(chip.opcode)
        a == before.registers[X]
        b == before.registers[Y]
    IN  IF X # 15
        THEN /\ chip.registers[15] = (IF a + b > 255 THEN 1 ELSE 0)
             /\ chip.registers[X] = (a + b) % 256
        ELSE chip.registers[15] = (a + b) % 256

(* An 8XY4 with X # 0xF whose sum carried.                                  *)
C2_Witness ==
  /\ Executed8(4)
  /\ OpX(chip.opcode) # 15
  /\ before.registers[OpX(chip.opcode)] + before.registers[OpY(chip.opcode)] > 255
  /\ chip.registers[15] = 1

(* C3: after 8XY5, for all a = reg[X], b = reg[Y] held before,              *)
(* reg[0xF] = 1 iff a >= b (else 0) and reg[X] = (a - b) mod 256, the       *)
(* operands being those held before the flag was written.  Stated for       *)
(* X # 0xF, where the flag and the result are different registers.          *)
C3_SubBorrow ==
  (Executed8(5) /\ OpX(chip.opcode) # 15) =>
    LET X == OpX(chip.opcode)
        Y == OpY(chip.opcode)
        a == before.registers[X]
        b == before.registers[Y]
    IN  /\ chip.registers[15] = (IF a >= b THEN 1 ELSE 0)
        /\ chip.registers[X] = (a - b) % 256

ExecutedDraw == Completed /\ OpCmd(chip.opcode) = 13

(* The sprite of the DXYN word op, drawn from the interpreter c, lies       *)
(* inside the screen and inside memory.                                     *)
SpriteInside(c, op) ==
  /\ (c.registers[OpX(op)] % 64) + 7 < VIDEO_WIDTH
  /\ (c.registers[OpY(op)] % 32) + OpN(op) - 1 < VIDEO_HEIGHT
  /\ c.index_register + OpN(op) <= MEMORY_SIZE

(* Bit (7 - col) of sprite row `row` is set.                                *)
SpriteBit(c, row, col) ==
  (c.memory[c.index_register + row] \div (2 ^ (7 - col))) % 2 = 1

(* The sprite of n rows at c.index_register, drawn at (x, y), has a set bit *)
(* on the pixel at index pos.                                               *)
SpriteCovers(c, x, y, n, pos) ==
  /\ (pos % 64) - x >= 0 /\ (pos % 64) - x < 8
  /\ (pos \div 64) - y >= 0 /\ (pos \div 64) - y < n
  /\ SpriteBit(c, (pos \div 64) - y, (pos % 64) - x)

(* C1: after a DXYN cycle reg[0xF] is 1 if a pixel that was on (0xFF)       *)
(* before the instruction was turned off by it, and 0 otherwise.            *)
C1_CollisionFlag ==
  ExecutedDraw =>
    chip.registers[15] =
      (IF \E pos \in 0..(VIDEO_SIZE - 1) :
            before.video[pos] = 255 /\ chip.video[pos] # 255
       THEN 1 ELSE 0)

(* C4: a DXYN executed right after the same DXYN (same sprite bytes, same   *)
(* reg[X] and reg[Y], sprite inside the screen) leaves the framebuffer as   *)
(* it was before the first of the two, with reg[0xF] = 1 when the sprite    *)
(* has a set bit.  before is the interpreter the first draw started from,   *)
(* chip the one between the two, chip' the one after the second.            *)
SecondOfTwoDraws ==
  /\ ExecutedDraw
  /\ Run
  /\ phase' = "running"
  /\ chip'.opcode = chip.opcode
  /\ chip.index_register = before.index_register
  /\ \A row \in 0..(OpN(chip.opcode) - 1) :
       chip.index_register + row < MEMORY_SIZE =>
         chip.memory[chip.index_register + row]
           = before.memory[before.index_register + row]
  /\ chip.registers[OpX(chip.opcode)] = before.registers[OpX(chip.opcode)]
  /\ chip.registers[OpY(chip.opcode)] = before.registers[OpY(chip.opcode)]
  /\ SpriteInside(chip, chip.opcode)

C4_DrawTwiceRestores ==
  [][ SecondOfTwoDraws =>
        /\ chip'.video = before.video
        /\ (\E row \in 0..(OpN(chip.opcode) - 1), col \in 0..7 :
               SpriteBit(chip, row, col))
             => chip'.registers[15] = 1 ]_vars

(* C5: a DXYN executed right after 00E0, its sprite inside the screen,      *)
(* leaves pixel (reg[X] mod 64 + col, reg[Y] mod 32 + row) at 0xFF exactly  *)
(* when bit (7 - col) of memory[index_register + row] is set, and every     *)
(* other pixel at 0x00.                                                     *)
C5_ClearThenDraw ==
  (ExecutedDraw /\ before.opcode = 224 /\ SpriteInside(before, chip.opcode)) =>
    LET x == before.registers[OpX(chip.opcode)] % 64
        y == before.registers[OpY(chip.opcode)] % 32
        n == OpN(chip.opcode)
    IN  \A pos \in 0..(VIDEO_SIZE - 1) :
          chip.video[pos] = (IF SpriteCovers(before, x, y, n, pos) THEN 255 ELSE 0)

(* Such a draw, of a sprite with set bits, on a screen whose pixel (0, 0)   *)
(* the program had set before the clear and the sprite does not cover.      *)
C5_Witness ==
  /\ ExecutedDraw
  /\ before.opcode = 224
  /\ SpriteInside(before, chip.opcode)
  /\ before.registers[OpX(chip.opcode)] % 64 > 0
  /\ chip.video[0] = 0
  /\ \E pos \in 0..(VIDEO_SIZE - 1) : chip.video[pos] = 255

(* C6: a 2NNN at address p executed at stack depth d < 16 is matched by the *)
(* 00EE executed when the depth is d + 1 again, which sets program_counter  *)
(* to p + 2 and stack_pointer to d.  call_sites[d + 1] is the address of    *)
(* the call made at depth d that has not returned.                          *)
C6_CallRetRoundTrip ==
  [][ /\ (Run /\ phase' = "running" /\ IsCall(chip'.opcode)) =>
           /\ chip.stack_pointer < STACK_SIZE
           /\ Len(call_sites) = chip.stack_pointer
           /\ chip'.stack_pointer = chip.stack_pointer + 1
      /\ (Run /\ phase' = "running" /\ IsRet(chip'.opcode)) =>
           LET d == chip.stack_pointer - 1
           IN  /\ d >= 0
               /\ Len(call_sites) = d + 1
               /\ chip'.program_counter = call_sites[d + 1] + 2
               /\ chip'.stack_pointer = d ]_vars

(* The return from the sixteenth nested call.                               *)
C6_Witness ==
  /\ Completed
  /\ IsRet(chip.opcode)
  /\ before.stack_pointer = STACK_SIZE
  /\ chip.stack_pointer = STACK_SIZE - 1
  /\ Len(call_sites) = STACK_SIZE - 1
  /\ chip.program_counter = before.stack[STACK_SIZE - 1]

(* The instruction patterns of the table, on the nibbles of the word.       *)
InTable(op) ==
  LET g  == op \div 4096
      n  == op % 16
      nn == op % 256
  IN  CASE g = 0 -> op \in {224, 238}
        [] g \in {5, 9} -> n = 0
        [] g = 8 -> n \in (0..7) \cup {14}
        [] g = 14 -> nn \in {158, 161}
        [] g = 15 -> nn \in {7, 10, 21, 24, 30, 41, 51, 85, 101}
        [] OTHER -> TRUE

(* C7: a word outside the instruction table ends run() in the               *)
(* invalid-instruction fault: no cycle that fetched one completes.          *)
C7_InvalidOpcodeFaults == Completed => InTable(chip.opcode)

(* C8: FX65 loads reg[0] .. reg[X] from memory[index_register ..            *)
(* index_register + X] and leaves reg[X+1] .. reg[0xF] unchanged.           *)
C8_LoadRegisters ==
  ( /\ Completed
    /\ OpCmd(chip.opcode) = 15 /\ OpNN(chip.opcode) = 101
    /\ before.index_register + OpX(chip.opcode) < MEMORY_SIZE ) =>
    \A i \in Regs :
      chip.registers[i] =
        (IF i <= OpX(chip.opcode)
         THEN before.memory[before.index_register + i]
         ELSE before.registers[i])

SetMax(S) == CHOOSE m \in S : \A k \in S : k <= m

(* C9: a cycle that fetches FX0A at address p returns; with no keypad entry *)
(* true it ends with program_counter = p and reg[X] unchanged, so that the  *)
(* next cycle fetches the same instruction; with one true it ends with      *)
(* reg[X] = the highest index of a true entry and program_counter = p + 2.  *)
C9_KeyWait ==
  [][ ( /\ Run
        /\ OpCmd(NextWord(chip)) = 15
        /\ OpNN(NextWord(chip)) = 10 ) =>
        LET X       == OpX(NextWord(chip))
            pressed == {i \in 0..(NUM_KEYS - 1) : chip.keypad[i]}
        IN  /\ phase' = "running"
            /\ IF pressed = {}
               THEN /\ chip'.program_counter = chip.program_counter
                    /\ chip'.registers[X] = chip.registers[X]
                    /\ NextWord(chip') = NextWord(chip)
               ELSE /\ chip'.registers[X] = SetMax(pressed)
                    /\ chip'.program_counter = chip.program_counter + 2 ]_vars

(* A key-wait that ended with two keypad entries true, the higher one 0xF.  *)
C9_Witness ==
  /\ Completed
  /\ OpCmd(chip.opcode) = 15 /\ OpNN(chip.opcode) = 10
  /\ before.keypad[1] /\ before.keypad[15]
  /\ chip.registers[OpX(chip.opcode)] = 15
  /\ chip.program_counter = before.program_counter + 2

Word(c, addr) == c.memory[addr] * 256 + c.memory[addr + 1]

(* The timer scenario: the program starts 6X02 FX15 and goes on with three  *)
(* instructions that load or add to a register or load index_register; k   *)
(* of them have executed since the FX15.                                    *)
TimerScenario(k) ==
  /\ Completed
  /\ \E X \in Regs :
       /\ Word(chip, START_ADDRESS) = InsNN(6, X, 2)
       /\ Word(chip, START_ADDRESS + 2) = InsNN(15, X, 21)
  /\ \A j \in 2..4 : Word(chip, START_ADDRESS + 2 * j) \div 4096 \in {6, 7, 10}
  /\ chip.program_counter = START_ADDRESS + 4 + 2 * k

(* C10: every cycle ends with each timer one less than its value after the  *)
(* instruction (FX15 sets delay_timer, FX18 sets sound_timer to reg[X]) if  *)
(* that was > 0, and 0 otherwise; in the timer scenario delay_timer is 0    *)
(* after two cycles that follow the FX15, and after the third.              *)
C10_Timers ==
  /\ Completed =>
       LET X     == OpX(chip.opcode)
           isF   == OpCmd(chip.opcode) = 15
           delay == IF isF /\ OpNN(chip.opcode) = 21
                    THEN before.registers[X] ELSE before.delay_timer
           sound == IF isF /\ OpNN(chip.opcode) = 24
                    THEN before.registers[X] ELSE before.sound_timer
       IN  /\ chip.delay_timer = (IF delay > 0 THEN delay - 1 ELSE 0)
           /\ chip.sound_timer = (IF sound > 0 THEN sound - 1 ELSE 0)
  /\ (TimerScenario(2) \/ TimerScenario(3)) => chip.delay_timer = 0

(* The scenario two cycles after the FX15.                                  *)
C10_Witness == TimerScenario(2) /\ chip.delay_timer = 0 /\ before.delay_timer = 0

(* C11: a cycle that fetches 00EE with stack_pointer = 0, or 2NNN with      *)
(* stack_pointer = 16, ends in a panic; and whenever the process has not    *)
(* panicked 0 <= stack_pointer <= 16.                                       *)
C11_StackFaults ==
  /\ [](phase # "panicked" =>
          chip.stack_pointer >= 0 /\ chip.stack_pointer <= STACK_SIZE)
  /\ [][ /\ (Run /\ IsRet(NextWord(chip)) /\ chip.stack_pointer = 0)
              => phase' = "panicked"
         /\ (Run /\ IsCall(NextWord(chip)) /\ chip.stack_pointer = STACK_SIZE)
              => phase' = "panicked" ]_vars

(* The seventeenth nested call has panicked, the stack full.                *)
C11_Witness ==
  /\ phase = "panicked"
  /\ IsCall(chip.opcode)
  /\ chip.stack_pointer = STACK_SIZE
  /\ Len(call_sites) = STACK_SIZE

(* C12: memory[0x50 .. 0x9F] holds the 80 font bytes after construction and *)
(* in every state after it.                                                 *)
C12_FontRegionReadOnly ==
  \A i \in 1..FONTSET_SIZE :
    chip.memory[FONTSET_START_ADDRESS + i - 1] = FONT_DATA[i]

ExecutedF(nn) == Completed /\ OpCmd(chip.opcode) = 15 /\ OpNN(chip.opcode) = nn

(* C15: FX33 with v = reg[X] and I = index_register stores v div 100,       *)
(* (v div 10) mod 10 and v mod 10 at memory[I], [I+1], [I+2] and changes no *)
(* other memory byte, no register and not index_register.                   *)
C15_DecimalDigits ==
  ExecutedF(51) =>
    LET v == before.registers[OpX(chip.opcode)]
        I == before.index_register
    IN  /\ I + 2 < MEMORY_SIZE
        /\ chip.memory = [before.memory EXCEPT ![I] = v \div 100,
                                               ![I + 1] = (v \div 10) % 10,
                                               ![I + 2] = v % 10]
        /\ chip.registers = before.registers
        /\ chip.index_register = I

(* The conversion of 255 to the bytes 2, 5, 5.                              *)
C15_Witness ==
  /\ ExecutedF(51)
  /\ before.registers[OpX(chip.opcode)] = 255
  /\ chip.memory[chip.index_register] = 2
  /\ chip.memory[chip.index_register + 1] = 5
  /\ chip.memory[chip.index_register + 2] = 5
  /\ before.memory[chip.index_register] # 2

(* C13: a DXYN cycle, completed or ended by a fault, changes no framebuffer *)
(* pixel outside columns reg[X] mod 64 .. + 7 and rows reg[Y] mod 32 ..     *)
(* + N - 1 of the screen: a sprite pixel past column 63 or row 31 is        *)
(* dropped or faults, and does not toggle a pixel of another row.           *)
C13_DrawNeverWraps ==
  (phase # "created" /\ OpCmd(chip.opcode) = 13) =>
    LET x == before.registers[OpX(chip.opcode)] % 64
        y == before.registers[OpY(chip.opcode)] % 32
        n == OpN(chip.opcode)
    IN  \A pos \in 0..(VIDEO_SIZE - 1) :
          chip.video[pos] # before.video[pos] =>
            /\ (pos % 64) - x >= 0 /\ (pos % 64) - x < 8
            /\ (pos \div 64) - y >= 0 /\ (pos \div 64) - y < n

(* C14: for X # 0xF, 6XNN sets reg[X] = NN and 7XNN sets reg[X] =           *)
(* (v + NN) mod 256, v the previous reg[X]; each advances program_counter   *)
(* by 2 and leaves every other register, reg[0xF] included, unchanged.  The *)
(* program 6A05 7A03 gives reg[0xA] = 8 and program_counter = 0x204 after   *)
(* two cycles.                                                              *)
C14_LoadAndAddImmediate ==
  /\ (Completed /\ OpCmd(chip.opcode) \in {6, 7} /\ OpX(chip.opcode) # 15) =>
       LET X  == OpX(chip.opcode)
           NN == OpNN(chip.opcode)
           v  == before.registers[X]
       IN  /\ chip.registers =
                [before.registers EXCEPT
                   ![X] = IF OpCmd(chip.opcode) = 6 THEN NN ELSE (v + NN) % 256]
           /\ chip.program_counter = before.program_counter + 2
  /\ ( /\ Completed
       /\ Word(chip, START_ADDRESS) = 27141        \* 6A05
       /\ Word(chip, START_ADDRESS + 2) = 31235    \* 7A03
       /\ before.opcode = 27141
       /\ chip.opcode = 31235 ) =>
       chip.registers[10] = 8 /\ chip.program_counter = START_ADDRESS + 4

(* An addition that wrapped: 7XNN with v + NN > 255, X # 0xF.               *)
C14_Witness ==
  /\ Completed
  /\ OpCmd(chip.opcode) = 7
  /\ OpX(chip.opcode) # 15
  /\ before.registers[OpX(chip.opcode)] + OpNN(chip.opcode) > 255
  /\ chip.registers[OpX(chip.opcode)] < before.registers[OpX(chip.opcode)]

(* C19: a cycle that fetches FX29 does not fault and sets index_register to *)
(* 0x50 + 5 * reg[X], for every byte reg[X].                                *)
C19_FontAddress ==
  [][ (Run /\ OpCmd(NextWord(chip)) = 15 /\ OpNN(NextWord(chip)) = 41) =>
        /\ phase' = "running"
        /\ chip'.index_register =
             FONTSET_START_ADDRESS + 5 * chip.registers[OpX(NextWord(chip))] ]_vars

(* C16: a cycle that fetches 8XY7 completes without a fault, with           *)
(* reg[0xF] = 1 iff reg[Y] > reg[X] (else 0) and reg[X] =                   *)
(* (reg[Y] - reg[X]) mod 256, for all bytes reg[X], reg[Y] held before,     *)
(* reg[Y] < reg[X] included.  Stated for X # 0xF and Y # 0xF, where the     *)
(* flag is neither the result register nor an operand.                      *)
C16_SubtractReversed ==
  [][ ( /\ Run
        /\ OpCmd(NextWord(chip)) = 8 /\ OpN(NextWord(chip)) = 7
        /\ OpX(NextWord(chip)) # 15 /\ OpY(NextWord(chip)) # 15 ) =>
        LET a == chip.registers[OpX(NextWord(chip))]
            b == chip.registers[OpY(NextWord(chip))]
        IN  /\ phase' = "running"
            /\ chip'.registers[15] = (IF b > a THEN 1 ELSE 0)
            /\ chip'.registers[OpX(NextWord(chip))] = (b - a) % 256 ]_vars

(* The conditional skips of the table, and the condition of the skip word   *)
(* op in the interpreter c.                                                 *)
IsSkip(op) ==
  \/ OpCmd(op) \in {3, 4}
  \/ OpCmd(op) \in {5, 9} /\ OpN(op) = 0
  \/ OpCmd(op) = 14 /\ OpNN(op) \in {158, 161}

SkipCondition(c, op) ==
  LET vx == c.registers[OpX(op)]
      vy == c.registers[OpY(op)]
  IN  CASE OpCmd(op) = 3 -> vx = OpNN(op)
        [] OpCmd(op) = 4 -> vx # OpNN(op)
        [] OpCmd(op) = 5 -> vx = vy
        [] OpCmd(op) = 9 -> vx # vy
        [] OpCmd(op) = 14 /\ OpNN(op) = 158 -> c.keypad[vx]
        [] OpCmd(op) = 14 /\ OpNN(op) = 161 -> ~c.keypad[vx]

(* C17: a cycle that fetches a conditional skip at address p (EX9E and EXA1 *)
(* with reg[X] <= 0xF) ends with program_counter = p + 4 when its condition *)
(* holds and p + 2 otherwise, and changes no register, memory byte, stack   *)
(* entry, keypad entry or framebuffer pixel.                                *)
C17_ConditionalSkips ==
  [][ ( /\ Run
        /\ IsSkip(NextWord(chip))
        /\ OpCmd(NextWord(chip)) = 14 =>
             chip.registers[OpX(NextWord(chip))] < NUM_KEYS ) =>
        /\ phase' = "running"
        /\ chip'.program_counter =
             chip.program_counter
               + (IF SkipCondition(chip, NextWord(chip)) THEN 4 ELSE 2)
        /\ chip'.registers = chip.registers
        /\ chip'.memory = chip.memory
        /\ chip'.stack = chip.stack
        /\ chip'.keypad = chip.keypad
        /\ chip'.video = chip.video ]_vars

(* An EX9E that skipped: reg[X] = 0xF and keypad[0xF] true.                 *)
C17_Witness ==
  /\ Completed
  /\ OpCmd(chip.opcode) = 14 /\ OpNN(chip.opcode) = 158
  /\ before.registers[OpX(chip.opcode)] = 15
  /\ before.keypad[15]
  /\ chip.program_counter = before.program_counter + 4

(* The instruction word op, executed from the interpreter c, makes a data   *)
(* access at an address index_register + k >= 4096: FX33 touches I .. I+2,  *)
(* FX55 I .. I+X, FX65 I .. I+reg[X] (the range its loop runs over), DXYN   *)
(* I .. I+N-1.                                                              *)
DataAccessPastEnd(c, op) ==
  LET I == c.index_register
  IN  \/ OpCmd(op) = 15 /\ OpNN(op) = 51 /\ I + 2 >= MEMORY_SIZE
      \/ OpCmd(op) = 15 /\ OpNN(op) = 85 /\ I + OpX(op) >= MEMORY_SIZE
      \/ OpCmd(op) = 15 /\ OpNN(op) = 101
           /\ I + c.registers[OpX(op)] >= MEMORY_SIZE
      \/ OpCmd(op) = 13 /\ OpN(op) >= 1 /\ I + OpN(op) - 1 >= MEMORY_SIZE

(* C18: a cycle whose fetch needs program_counter + 1 >= 4096 panics with   *)
(* nothing changed; a cycle whose FX33, FX55, FX65 or DXYN makes a data     *)
(* access at index_register + k >= 4096 panics, having written no memory    *)
(* byte below index_register and loaded no register from a wrapped address; *)
(* and after a panic nothing changes any more.                              *)
C18_OutOfBoundsFaults ==
  /\ [][ (Run /\ chip.program_counter + 1 >= MEMORY_SIZE) =>
           /\ phase' = "panicked"
           /\ chip' = chip ]_vars
  /\ [][ ( /\ Run
           /\ chip.program_counter + 1 < MEMORY_SIZE
           /\ DataAccessPastEnd(chip, NextWord(chip)) ) =>
           LET I  == chip.index_register
               op == NextWord(chip)
           IN  /\ phase' = "panicked"
               /\ \A a \in 0..(MEMORY_SIZE - 1) :
                    chip'.memory[a] # chip.memory[a] => a >= I
               /\ (OpCmd(op) = 15 /\ OpNN(op) = 101) =>
                    \A i \in Regs :
                      chip'.registers[i] # chip.registers[i] =>
                        /\ I + i < MEMORY_SIZE
                        /\ chip'.registers[i] = chip.memory[I + i] ]_vars
  /\ [][phase # "panicked"]_vars

(* FX33 of 255 at index_register = 4094 has panicked: the digits 2 and 5    *)
(* are in the last two bytes of memory, and memory[0] is untouched.         *)
C18_Witness ==
  /\ phase = "panicked"
  /\ OpCmd(chip.opcode) = 15 /\ OpNN(chip.opcode) = 51
  /\ chip.index_register = MEMORY_SIZE - 2
  /\ chip.memory[MEMORY_SIZE - 2] = 2
  /\ chip.memory[MEMORY_SIZE - 1] = 5
  /\ chip.memory[0] = 0

(* C20: only a cycle that executes DXYN or 00E0 changes the framebuffer (no *)
(* other cycle, no key press or release, not the program load), and in      *)
(* every state each pixel is 0x00 or 0xFF.                                  *)
C20_FramebufferWriters ==
  /\ [](\A pos \in 0..(VIDEO_SIZE - 1) : chip.video[pos] \in {0, 255})
  /\ [][ chip'.video # chip.video =>
           /\ Run
           /\ OpCmd(NextWord(chip)) = 13 \/ NextWord(chip) = 224 ]_vars

(* A store of registers (FX55) ran on a screen with lit pixels and left     *)
(* them lit.                                                                *)
C20_Witness ==
  /\ ExecutedF(85)
  /\ chip.video = before.video
  /\ chip.video[0] = 255
  /\ chip.video[4] = 0

(* The key of the keyboard drives keypad entry k: its press sets the entry  *)
(* and its release clears it.                                               *)
Drives(key, k) ==
  /\ press_args(create, key).keypad[k]
  /\ ~release_args(press_args(create, key), key).keypad[k]

(* C21: every keypad index 0x0..0xF has a key that drives it, no two        *)
(* distinct keys drive the same index, and so a keypad entry is true        *)
(* exactly while a key that drives it is held: the release of one key never *)
(* clears the entry of a key that is still down.                            *)
C21_KeypadIndependent ==
  phase = "running" =>
    /\ \A k \in 0..(NUM_KEYS - 1) : \E key \in Keys : Drives(key, k)
    /\ \A k \in 0..(NUM_KEYS - 1) : \A key1, key2 \in Keys :
         (Drives(key1, k) /\ Drives(key2, k)) => key1 = key2
    /\ \A k \in 0..(NUM_KEYS - 1) :
         chip.keypad[k] <=> \E key \in held : Drives(key, k)

====
